---------------------------- MODULE Spec2Model ----------------------------
(***************************************************************************)
(* Model of jaeger_lab_to_nwb/fretconverter/fretdatainterface.py:          *)
(*   FRETDataInterface.read_trial_meta  (header parser),                   *)
(*   FRETDataInterface.run_conversion.data_gen  (binary frame decoder),    *)
(*   FRETDataInterface.run_conversion  (trial/channel orchestrator).       *)
(*                                                                         *)
(* Text is modelled as a sequence of tokens (a line of the header is a     *)
(* tuple of tokens, the last one "\n"); Python's `in`, str.replace and     *)
(* str.strip act on tokens.  Floats are exact rationals <<num, den>>.      *)
(* A raw-data file is its byte length and a seed that fixes every byte.    *)
(***************************************************************************)
EXTENDS Integers, Sequences, FiniteSets, TLC

VARIABLES
    (* read_trial_meta, run on its own *)
    m_pc,        \* "reading" | "returned" | "raised"
    m_header,    \* the lines f.readline() has returned so far
    m_loc,       \* the locals of read_trial_meta
    m_result,    \* what the call returned or raised
    (* data_gen(channel, trial) *)
    g_pc,        \* "start" | "next_file" | "frames" | "exhausted" | "raised" | "idle"
    g_hdr,       \* the header file of this (channel, trial)
    g_loc,       \* the locals of data_gen
    g_out,       \* the frame yielded last from the file that is open
    g_excess,    \* excess_frames[ifr] of that frame
    g_log,       \* what the generator has done: opened files, last yield, error
    (* run_conversion *)
    c_pc,        \* "start" | "loop" | "returned" | "raised" | "idle"
    c_dir,       \* the directory: its non-channel headers
    c_loc,       \* the locals of run_conversion
    nwbfile,     \* the destination container
    c_log        \* what run_conversion printed / raised, and the container it was given

m_vars == <<m_pc, m_header, m_loc, m_result>>
g_vars == <<g_pc, g_hdr, g_loc, g_out, g_excess, g_log>>
c_vars == <<c_pc, c_dir, c_loc, nwbfile, c_log>>
vars == <<m_vars, g_vars, c_vars>>

-----------------------------------------------------------------------------
(* Bounds of the model *)

\* longest header file read by read_trial_meta on its own, in lines
MaxLines == 6

-----------------------------------------------------------------------------
(* Text: a string is a tuple of tokens *)

Whitespace == {" ", "\n"}

\* `tok in line`
Contains(line, tok) == \E i \in 1..Len(line) : line[i] = tok

\* line.replace(tok, '')
Replace(line, tok) == SelectSeq(line, LAMBDA t : t # tok)

RECURSIVE LStrip(_)
LStrip(s) == IF s # <<>> /\ Head(s) \in Whitespace THEN LStrip(Tail(s)) ELSE s

RECURSIVE RStrip(_)
RStrip(s) ==
    IF s # <<>> /\ s[Len(s)] \in Whitespace THEN RStrip(SubSeq(s, 1, Len(s) - 1)) ELSE s

\* line.strip()
Strip(s) == RStrip(LStrip(s))

\* the decimal digits-only texts the headers of the model use
ParseNumber(tok) ==
    CASE tok = "1" -> 1
      [] tok = "2" -> 2
      [] tok = "3" -> 3
      [] tok = "4" -> 4
      [] tok = "5" -> 5
      [] tok = "6" -> 6
      [] tok = "10" -> 10
      [] tok = "20" -> 20

\* int(aux): aux is one numeric token
PyInt(aux) == ParseNumber(aux[1])

RECURSIVE GCD(_, _)
GCD(a, b) == IF b = 0 THEN a ELSE GCD(b, a % b)

\* a float, as the exact rational num/den in lowest terms (den > 0)
Rat(num, den) == LET g == GCD(num, den) IN <<num \div g, den \div g>>

\* float(aux)
PyFloat(aux) == Rat(ParseNumber(aux[1]), 1)

\* x / y on floats
FloatDiv(x, y) == Rat(x[1] * y[2], x[2] * y[1])

\* x + y on floats
FloatAdd(x, y) == Rat(x[1] * y[2] + y[1] * x[2], x[2] * y[2])

-----------------------------------------------------------------------------
(* read_trial_meta *)

\* the locals before the loop: files_raw = [], addftolist = False; the three
\* field locals are unbound until a line assigns them
MetaLocals0 ==
    [files_raw |-> <<>>, addftolist |-> FALSE, bound |-> {},
     acquisition_date |-> <<>>, sample_rate |-> <<0, 1>>, n_frames |-> 0]

MetaDate(loc, line) ==
    IF Contains(line, "acquisition_date")
    THEN [loc EXCEPT !.acquisition_date =
                         Strip(Replace(Replace(line, "acquisition_date"), "=")),
                     !.bound = @ \cup {"acquisition_date"}]
    ELSE loc

MetaSampleTime(loc, line) ==
    IF Contains(line, "sample_time")
    THEN LET aux == Strip(Replace(Replace(Replace(line, "sample_time"), "="), "msec"))
             sample_time == FloatDiv(PyFloat(aux), <<1000, 1>>)
         IN [loc EXCEPT !.sample_rate = FloatDiv(<<1, 1>>, sample_time),
                        !.bound = @ \cup {"sample_rate"}]
    ELSE loc

MetaPageFrames(loc, line) ==
    IF Contains(line, "page_frames")
    THEN LET aux == Strip(Replace(Replace(line, "page_frames"), "="))
         IN [loc EXCEPT !.n_frames = PyInt(aux), !.bound = @ \cup {"n_frames"}]
    ELSE loc

MetaAppend(loc, line) ==
    IF loc.addftolist
    THEN [loc EXCEPT !.files_raw = Append(@, Strip(line))]
    ELSE loc

MetaSentinel(loc, line) ==
    IF Contains(line, "Data-File-List") THEN [loc EXCEPT !.addftolist = TRUE] ELSE loc

\* the pass with the sentinel test ahead of the append: the sentinel line itself
\* is collected
MetaLineSentinelFirst(loc, line) ==
    MetaAppend(MetaSentinel(MetaPageFrames(MetaSampleTime(MetaDate(loc, line), line),
                                           line), line), line)

\* one pass of the while loop, on the line just read
MetaLine(loc, line) ==
    MetaSentinel(MetaAppend(MetaPageFrames(MetaSampleTime(MetaDate(loc, line), line),
                                           line), line), line)

\* the return with the unassigned locals read as their initial values
MetaReturnDefaults(loc) ==
    IF loc.files_raw = <<>>
    THEN [status |-> "IndexError"]
    ELSE [status |-> "ok",
          file_rsm |-> loc.files_raw[1],
          files_raw |-> Tail(loc.files_raw),
          acquisition_date |-> loc.acquisition_date,
          sample_rate |-> loc.sample_rate,
          n_frames |-> loc.n_frames]

\* the return without the separation of the .rsm file from the .rsd files
MetaReturnKeepsFirst(loc) ==
    IF loc.files_raw = <<>>
    THEN [status |-> "IndexError"]
    ELSE IF loc.bound # {"acquisition_date", "sample_rate", "n_frames"}
    THEN [status |-> "UnboundLocalError"]
    ELSE [status |-> "ok",
          file_rsm |-> loc.files_raw[1],
          files_raw |-> loc.files_raw,
          acquisition_date |-> loc.acquisition_date,
          sample_rate |-> loc.sample_rate,
          n_frames |-> loc.n_frames]

\* the code after the loop: files_raw[0] raises IndexError on an empty list, the
\* return statement raises UnboundLocalError on a local no line assigned
MetaReturn(loc) ==
    IF loc.files_raw = <<>>
    THEN [status |-> "IndexError"]
    ELSE IF loc.bound # {"acquisition_date", "sample_rate", "n_frames"}
    THEN [status |-> "UnboundLocalError"]
    ELSE [status |-> "ok",
          file_rsm |-> loc.files_raw[1],
          files_raw |-> Tail(loc.files_raw),
          acquisition_date |-> loc.acquisition_date,
          sample_rate |-> loc.sample_rate,
          n_frames |-> loc.n_frames]

RECURSIVE MetaLoop(_, _)
MetaLoop(loc, lines) ==
    IF lines = <<>> THEN loc ELSE MetaLoop(MetaLine(loc, Head(lines)), Tail(lines))

\* read_trial_meta(trial_meta), on the lines of the file trial_meta
ReadTrialMeta(lines) == MetaReturn(MetaLoop(MetaLocals0, lines))

-----------------------------------------------------------------------------
(* Header files *)

DateLine(d) == <<"acquisition_date", "=", d, "\n">>
SampleLine(ms) == <<"sample_time", "=", " ", ms, "msec", "\n">>
PageLine(n) == <<"page_frames", " ", "=", " ", n, "\n">>
SentinelLine == <<"Data-File-List", "\n">>
FileLine(f) == <<f, "\n">>

\* a well-formed .rsh file: the three fields, the sentinel, one file name per line
MkHeader(d, ms, n, files) ==
    <<DateLine(d), SampleLine(ms), PageLine(n), SentinelLine>>
        \o [i \in 1..Len(files) |-> FileLine(files[i])]

-----------------------------------------------------------------------------
(* Raw-data files and numpy arrays *)

\* bound of the single f.read
ReadSize == 1000000000
\* samples of one frame blob, and its geometry
FrameSamples == 12800
BlockRows == 128
BlockCols == 100
\* iframe[0:20, :] is the excess region, iframe[20:120, :] the frame
ExcessEnd == 20
FrameEnd == 120
\* values of a signed 16-bit integer: -Int16Half .. Int16Half - 1
Int16Half == 32768

\* most frames in one raw-data file of the model
MaxFrames == 2
\* most raw-data files a header of the model lists
MaxFiles == 2

Min(a, b) == IF a < b THEN a ELSE b
Max(a, b) == IF a > b THEN a ELSE b

\* x wrapped into the signed 16-bit range
WrapInt16(x) == ((x + Int16Half) % (2 * Int16Half)) - Int16Half

\* A raw-data file is [len, seed]: len bytes, holding the 16-bit words
\* (p + seed) mod 2^16 for p = 0, 1, ..., low byte first.
FileWord(file, p) == (p + file.seed) % (2 * Int16Half)

\* the sample at position p of the file, as the signed 16-bit integer it encodes
FileSample(file, p) ==
    IF FileWord(file, p) >= Int16Half
    THEN FileWord(file, p) - 2 * Int16Half
    ELSE FileWord(file, p)

ByteAt(file, i) ==
    IF i % 2 = 0 THEN FileWord(file, i \div 2) % 256 ELSE FileWord(file, i \div 2) \div 256

\* f.read(1000000000): the leading bytes of the file, at most ReadSize of them
FileRead(file) == [len |-> Min(file.len, ReadSize), seed |-> file.seed]

\* struct.unpack('h' * (len(byte) // 2), byte) raises struct.error unless the
\* buffer holds exactly 2 * (len(byte) // 2) bytes
UnpackFits(byte) == 2 * (byte.len \div 2) = byte.len

\* len(words): one word per two bytes
WordCount(byte) == byte.len \div 2

\* np.array(struct.unpack(...)): a 1-D array of the signed 16-bit words
UnpackWords(byte) ==
    [n |-> WordCount(byte),
     at |-> [p \in 0..(byte.len \div 2) - 1 |->
                 LET u == ByteAt(byte, 2 * p) + 256 * ByteAt(byte, 2 * p + 1)
                 IN IF u >= Int16Half THEN u - 2 * Int16Half ELSE u]]

\* the frame count taken from the byte length instead of the word count
FrameCountOfBytes(len_words) == (2 * len_words) \div FrameSamples

\* int(len(words) / 12800)
FrameCount(len_words) == len_words \div FrameSamples

\* a reshape that would keep the leading nr*nc elements of a longer array
ReshapeTruncates(size, nr, nc) == size >= nr * nc

\* a.reshape(nr, nc, order='F') raises ValueError unless the sizes agree
ReshapeFits(size, nr, nc) == size = nr * nc

\* A 2-D array is [shape, at]: shape = <<rows, columns>>, and at is the sequence
\* of its elements row after row: element [i, j] is at[i * columns + j + 1].
Elem(m, i, j) == m.at[i * m.shape[2] + j + 1]

\* the reshape in row-major order (order='C'): element [i, j] is a[i * nc + j]
ReshapeC(a, nr, nc) ==
    [shape |-> <<nr, nc>>,
     at |-> [x \in 1..nr * nc |-> a.at[((x - 1) \div nc) * nc + ((x - 1) % nc)]]]

\* a.reshape(nr, nc, order='F') of a 1-D array: element [i, j] is a[i + nr * j]
ReshapeF(a, nr, nc) ==
    [shape |-> <<nr, nc>>,
     at |-> [x \in 1..nr * nc |-> a.at[((x - 1) \div nc) + nr * ((x - 1) % nc)]]]

\* m[:, j]
Column(m, j) ==
    [n |-> m.shape[1], at |-> [i \in 0..m.shape[1] - 1 |-> Elem(m, i, j)]]

\* m.astype('int16')
AsInt16(m) == [shape |-> m.shape, at |-> [x \in DOMAIN m.at |-> WrapInt16(m.at[x])]]

\* -m on an int16 array: the negation wraps within 16 bits
NegateInt16(m) ==
    [shape |-> m.shape, at |-> [x \in DOMAIN m.at |-> WrapInt16(-m.at[x])]]

\* m[lo:hi, :]
RowSlice(m, lo, hi) ==
    LET nr == Max(0, Min(hi, m.shape[1]) - lo)
        nc == m.shape[2]
    IN [shape |-> <<nr, nc>>,
        at |-> [x \in 1..nr * nc |-> Elem(m, ((x - 1) \div nc) + lo, (x - 1) % nc)]]

\* words.reshape(12800, n_frames, order='F')
WordsReshaped(byte, n_frames) == ReshapeF(UnpackWords(byte), FrameSamples, n_frames)

\* -words_reshaped[:, ifr].reshape(128, 100, order='F').astype('int16'): the unary
\* minus applies to the array already cast to int16
IFrame(byte, n_frames, ifr) ==
    NegateInt16(AsInt16(ReshapeF(Column(WordsReshaped(byte, n_frames), ifr),
                                 BlockRows, BlockCols)))

\* iframe[20:120, :], the value yielded
FramePart(iframe) == RowSlice(iframe, ExcessEnd, FrameEnd)

\* the excess region taken one row too low: iframe[1:21, :]
ExcessPartShifted(iframe) == RowSlice(iframe, 1, ExcessEnd + 1)

\* iframe[0:20, :], stored into excess_frames[ifr]
ExcessPart(iframe) == RowSlice(iframe, 0, ExcessEnd)

-----------------------------------------------------------------------------
(* data_gen(channel, trial) *)

\* seed 19948 puts the sample -32768 at pixel (0, 0) of the second frame, seed
\* 52000 makes the samples of the second frame pass from -1 to 0
Seeds == {19948, 52000}

\* byte lengths of the raw-data files of the model: whole frames, an odd length,
\* half a frame, a frame and one sample, and lengths at and over the read bound
RawLengths ==
    {k * 2 * FrameSamples : k \in 0..MaxFrames}
        \cup {2 * FrameSamples + 1, FrameSamples, 2 * FrameSamples + 2,
              ReadSize, ReadSize + 1, 40000 * 2 * FrameSamples}

RawFiles == [len : RawLengths, seed : Seeds]

\* lists of raw-data file names, at most MaxFiles long: the leading names of two
\* file lists
RawLists ==
    {SubSeq(names, 1, n) :
        names \in {<<"a.rsd", "b.rsd", "c.rsd", "d.rsd">>,
                   <<"b.rsd", "a.rsd", "d.rsd", "c.rsd">>},
        n \in 0..MaxFiles}

\* the header files data_gen may find for its (channel, trial)
GenHeaders ==
    {MkHeader("2020/01/01 10:00:00", "10", n, <<"m.rsm">> \o fs) :
        n \in {"1", "5"}, fs \in RawLists}

NoArray == [shape |-> <<0, 0>>, at |-> <<>>]

GenLocals0 ==
    [files_raw |-> <<>>, fn |-> 0, n_frames |-> 0,
     f |-> [len |-> 0, seed |-> 0], byte |-> [len |-> 0, seed |-> 0], ifr |-> 0]

GenLog0 == [opened |-> <<>>, yields |-> 0, last |-> <<-1, -1>>, error |-> ""]

GenIdle ==
    /\ g_pc = "idle" /\ g_hdr = <<>> /\ g_loc = GenLocals0
    /\ g_out = NoArray /\ g_excess = NoArray /\ g_log = GenLog0

\* the call of data_gen up to its for loop: read the header of the trial
GenStart ==
    /\ g_pc = "start"
    /\ \E hdr \in GenHeaders :
         LET meta == ReadTrialMeta(hdr)
         IN /\ g_hdr' = hdr
            /\ IF meta.status = "ok"
               THEN /\ g_loc' = [g_loc EXCEPT !.files_raw = meta.files_raw,
                                              !.n_frames = meta.n_frames]
                    /\ g_pc' = "next_file"
                    /\ g_log' = g_log
               ELSE /\ g_loc' = g_loc
                    /\ g_pc' = "raised"
                    /\ g_log' = [g_log EXCEPT !.error = meta.status]
    /\ UNCHANGED <<g_out, g_excess, m_vars, c_vars>>

\* one pass of the for loop up to its inner loop: open the next file of the
\* list, read it, unpack it, count its frames, reshape it
GenOpenFile ==
    /\ g_pc = "next_file"
    /\ g_loc.fn < Len(g_loc.files_raw)
    /\ \E file \in RawFiles :
         LET byte == FileRead(file)
             n_frames == FrameCount(WordCount(byte))
             opened == [g_log EXCEPT !.opened = Append(@, g_loc.files_raw[g_loc.fn + 1]),
                                     !.yields = 0]
         IN IF ~UnpackFits(byte)
            THEN /\ g_pc' = "raised"
                 /\ g_loc' = [g_loc EXCEPT !.f = file, !.byte = byte]
                 /\ g_log' = [opened EXCEPT !.error = "struct.error"]
            ELSE IF ~ReshapeFits(WordCount(byte), FrameSamples, n_frames)
            THEN /\ g_pc' = "raised"
                 /\ g_loc' = [g_loc EXCEPT !.f = file, !.byte = byte, !.n_frames = n_frames]
                 /\ g_log' = [opened EXCEPT !.error = "ValueError"]
            ELSE /\ g_pc' = "frames"
                 /\ g_loc' = [g_loc EXCEPT !.f = file, !.byte = byte,
                                           !.n_frames = n_frames, !.ifr = 0]
                 /\ g_log' = opened
    /\ g_out' = NoArray
    /\ g_excess' = NoArray
    /\ UNCHANGED <<g_hdr, m_vars, c_vars>>

\* one pass of the inner loop: decode frame ifr and yield it
GenYield ==
    /\ g_pc = "frames"
    /\ g_loc.ifr < g_loc.n_frames
    /\ LET iframe == IFrame(g_loc.byte, g_loc.n_frames, g_loc.ifr)
       IN /\ g_out' = FramePart(iframe)
          /\ g_excess' = ExcessPart(iframe)
    /\ g_log' = [g_log EXCEPT !.yields = @ + 1, !.last = <<g_loc.fn, g_loc.ifr>>]
    /\ g_loc' = [g_loc EXCEPT !.ifr = @ + 1]
    /\ UNCHANGED <<g_pc, g_hdr, m_vars, c_vars>>

\* the inner loop ends: on to the next file of the list
GenFileDone ==
    /\ g_pc = "frames"
    /\ g_loc.ifr >= g_loc.n_frames
    /\ g_pc' = "next_file"
    /\ g_loc' = [g_loc EXCEPT !.fn = @ + 1]
    /\ UNCHANGED <<g_hdr, g_out, g_excess, g_log, m_vars, c_vars>>

\* the for loop ends: the generator is exhausted
GenExhausted ==
    /\ g_pc = "next_file"
    /\ g_loc.fn >= Len(g_loc.files_raw)
    /\ g_pc' = "exhausted"
    /\ UNCHANGED <<g_hdr, g_loc, g_out, g_excess, g_log, m_vars, c_vars>>

MetaIdle ==
    /\ m_pc = "idle" /\ m_header = <<>> /\ m_loc = MetaLocals0
    /\ m_result = [status |-> "none"]

ConvIdle ==
    /\ c_pc = "idle" /\ c_dir = <<>> /\ c_loc = <<>> /\ nwbfile = <<>> /\ c_log = <<>>

GenInit ==
    /\ g_pc = "start" /\ g_hdr = <<>> /\ g_loc = GenLocals0
    /\ g_out = NoArray /\ g_excess = NoArray /\ g_log = GenLog0
    /\ MetaIdle /\ ConvIdle

GenNext == GenStart \/ GenOpenFile \/ GenYield \/ GenFileDone \/ GenExhausted

SpecGen == GenInit /\ [][GenNext]_vars

-----------------------------------------------------------------------------
(* read_trial_meta on its own: the file is read line by line *)

\* the lines a header file of the model is made of
MetaLines ==
    {DateLine("2020/01/01 10:00:00"), SampleLine("10"), PageLine("5"), PageLine("6"),
     SentinelLine, FileLine("m.rsm"), FileLine("a.rsd")}

\* f.readline() returns a line: one pass of the while loop
MetaReadLine ==
    /\ m_pc = "reading"
    /\ Len(m_header) < MaxLines
    /\ \E line \in MetaLines :
         /\ m_header' = Append(m_header, line)
         /\ m_loc' = MetaLine(m_loc, line)
    /\ UNCHANGED <<m_pc, m_result, g_vars, c_vars>>

\* f.readline() returns '': the loop ends, and the function returns or raises
MetaEOF ==
    /\ m_pc = "reading"
    /\ m_result' = MetaReturn(m_loc)
    /\ m_pc' = IF MetaReturn(m_loc).status = "ok" THEN "returned" ELSE "raised"
    /\ UNCHANGED <<m_header, m_loc, g_vars, c_vars>>

MetaInit ==
    /\ m_pc = "reading" /\ m_header = <<>> /\ m_loc = MetaLocals0
    /\ m_result = [status |-> "none"]
    /\ GenIdle /\ ConvIdle

MetaNext == MetaReadLine \/ MetaEOF

SpecMeta == MetaInit /\ [][MetaNext]_vars

-----------------------------------------------------------------------------
(* run_conversion(nwbfile, metadata) *)

\* most trials (non-channel headers) in the directory
MaxTrials == 2

\* seconds of a day: timedelta.seconds lies in 0 .. SecondsPerDay - 1
SecondsPerDay == 86400
\* utcoffset of pytz.timezone('EST'), in seconds, negated
EstBehindUtc == 18000

\* datetime.strptime(acquisition_date, '%Y/%m/%d %H:%M:%S'), a naive datetime, as
\* seconds since 2020/01/01 00:00:00
Strptime(date) ==
    CASE date = <<"2020/01/01 10:00:00">> -> 36000
      [] date = <<"2020/01/01 10:00:30">> -> 36030
      [] date = <<"2020/01/01 09:59:50">> -> 35990
      [] date = <<"2020/01/02 10:00:10">> -> 122410

\* pytz.timezone('EST').localize(t): an aware datetime
LocalizeEst(t) == [naive |-> t, utcoffset |-> -EstBehindUtc]

\* the comparison of the wall-clock readings alone
SameNaive(a, b) == a.naive = b.naive

\* a == b on aware datetimes: the same instant
SameInstant(a, b) == a.naive - a.utcoffset = b.naive - b.utcoffset

\* (a - b).seconds on naive datetimes: the days of the difference are dropped
TimedeltaSeconds(a, b) == (a - b) % SecondsPerDay

\* float(n)
ToFloat(n) == <<n, 1>>

TrialNumbers == {"1", "2", "10"}

\* the name of the non-channel header of trial tr: '<prefix>-<trial>.rsh'
HeaderName(tr) == <<"p", "-", tr, ".rsh">>

\* the characters of the pieces of a file name, as their code points
CharCodes(tok) ==
    CASE tok = "p" -> <<112>>
      [] tok = "-" -> <<45>>
      [] tok = "1" -> <<49>>
      [] tok = "2" -> <<50>>
      [] tok = "10" -> <<49, 48>>
      [] tok = ".rsh" -> <<46, 114, 115, 104>>

\* the characters of a file name
RECURSIVE NameCodes(_)
NameCodes(f) ==
    IF f = <<>> THEN <<>> ELSE CharCodes(Head(f)) \o NameCodes(Tail(f))

\* a < b on str: the first character that differs decides, a proper prefix is
\* the smaller
RECURSIVE StrLess(_, _)
StrLess(a, b) ==
    IF b = <<>> THEN FALSE
    ELSE IF a = <<>> THEN TRUE
    ELSE IF Head(a) # Head(b) THEN Head(a) < Head(b)
    ELSE StrLess(Tail(a), Tail(b))

\* all_headers.sort(): the order of str, character by character
RECURSIVE SortHeaders(_)
SortHeaders(S) ==
    IF S = {} THEN <<>>
    ELSE LET f == CHOOSE x \in S :
                      \A y \in S \ {x} : StrLess(NameCodes(x), NameCodes(y))
         IN <<f>> \o SortHeaders(S \ {f})

\* f.split('-')[1].replace('.rsh', '')
TrialOf(f) == Replace(SubSeq(f, 3, Len(f)), ".rsh")

\* the directories of the model: the non-channel headers of at most MaxTrials trials
Directories ==
    {{HeaderName(tr) : tr \in T} :
        T \in {T \in SUBSET TrialNumbers : Cardinality(T) <= MaxTrials}}

\* the header files run_conversion may find: the first one, and those that differ
\* from it in one field
TrialHeaders ==
    {MkHeader("2020/01/01 10:00:00", "10", "5", <<"m.rsm", "a.rsd">>),
     MkHeader("2020/01/01 10:00:30", "10", "5", <<"m.rsm", "a.rsd">>),
     MkHeader("2020/01/01 09:59:50", "10", "5", <<"m.rsm", "a.rsd">>),
     MkHeader("2020/01/02 10:00:10", "10", "5", <<"m.rsm", "a.rsd">>),
     MkHeader("2020/01/01 10:00:00", "20", "5", <<"m.rsm", "a.rsd">>),
     MkHeader("2020/01/01 10:00:00", "10", "6", <<"m.rsm", "a.rsd">>)}

\* the containers run_conversion may be given: a session start time, data of
\* other interfaces in acquisition, trials (None, or a table of rows)
Containers ==
    [session_start_time :
         {LocalizeEst(36000), LocalizeEst(36030), [naive |-> 54000, utcoffset |-> 0],
          [naive |-> 36000, utcoffset |-> 0]},
     devices : {{}},
     acquisition : {<<>>, <<[name |-> <<"behavior">>]>>},
     trials : {[none |-> TRUE, rows |-> <<>>],
               [none |-> FALSE, rows |-> <<[start_time |-> <<0, 1>>,
                                            stop_time |-> <<1, 1>>]>>]}]

\* read_trial_meta on each of these files
TrialMeta == [hdr \in TrialHeaders |-> ReadTrialMeta(hdr)]

NoMeta == [status |-> "none"]

ConvLocals0 ==
    [all_headers |-> <<>>, session_start_time |-> LocalizeEst(0),
     add_trials |-> FALSE, trials_numbers |-> <<>>,
     done |-> 0, tr |-> <<>>, meta_A |-> NoMeta, meta_B |-> NoMeta,
     absolute_start_time |-> 0, relative_start_time |-> <<0, 1>>]

ConvLog0(given) == [printed |-> <<>>, raised |-> "", given |-> given]

\* FRETSeries(name=..., data=DataChunkIterator(data_gen(channel, trial)), ...)
FRETSeries(name, channel, tr, starting_time, rate) ==
    [name |-> name, data |-> [channel |-> channel, trial |-> tr],
     starting_time |-> starting_time, rate |-> rate]

\* FRET(name=meta_fret['name'] + '_' + str(tr), donor=..., acceptor=...)
FRET(tr, donor, acceptor) ==
    [name |-> <<"FRET", "_">> \o tr, donor |-> donor, acceptor |-> acceptor]

\* the asserts without the one on the sample rate
TrialAssertsNoRate(meta_A, meta_B, relative_start_time) ==
    IF meta_A.acquisition_date # meta_B.acquisition_date
    THEN "Acquisition date of channels do not match."
    ELSE IF meta_A.n_frames # meta_B.n_frames
    THEN "Number of frames of channels do not match."
    ELSE IF relative_start_time[1] < 0
    THEN "Starting time is negative."
    ELSE ""

\* the asserts of the trial loop, in their order: the message of the first that
\* fails, or "" when all pass
TrialAsserts(meta_A, meta_B, relative_start_time) ==
    IF meta_A.acquisition_date # meta_B.acquisition_date
    THEN "Acquisition date of channels do not match."
    ELSE IF meta_A.sample_rate # meta_B.sample_rate
    THEN "Sample rate of channels do not match."
    ELSE IF meta_A.n_frames # meta_B.n_frames
    THEN "Number of frames of channels do not match."
    ELSE IF relative_start_time[1] < 0
    THEN "Starting time is negative."
    ELSE ""

\* float((absolute_start_time - nwbfile.session_start_time.replace(tzinfo=None)).seconds)
RelativeStartTime(absolute_start_time, session_start_time) ==
    ToFloat(TimedeltaSeconds(absolute_start_time, session_start_time.naive))

\* the trial interval is added whenever the container has no trials at the
\* moment, the decision taken anew in each pass of the loop
AddTrialIfNone(trials, add_trials, start_time, stop_time) ==
    IF trials.none
    THEN [none |-> FALSE,
          rows |-> Append(trials.rows,
                          [start_time |-> start_time, stop_time |-> stop_time])]
    ELSE trials

\* if add_trials: nwbfile.add_trial(start_time=..., stop_time=...)
AddTrial(trials, add_trials, start_time, stop_time) ==
    IF add_trials
    THEN [none |-> FALSE,
          rows |-> Append(trials.rows,
                          [start_time |-> start_time, stop_time |-> stop_time])]
    ELSE trials

\* run_conversion up to its trial loop
ConvStart ==
    /\ c_pc = "start"
    /\ IF c_dir = {}
       THEN \* ophys_list is empty
            /\ c_pc' = "raised"
            /\ c_log' = [c_log EXCEPT !.raised = "OSError"]
            /\ UNCHANGED <<c_loc, nwbfile>>
       ELSE \E hdr \in TrialHeaders :
              LET all_headers == SortHeaders(c_dir)
                  meta == TrialMeta[hdr]
                  session_start_time == LocalizeEst(Strptime(meta.acquisition_date))
              IN IF meta.status # "ok"
                 THEN /\ c_pc' = "raised"
                      /\ c_log' = [c_log EXCEPT !.raised = meta.status]
                      /\ UNCHANGED <<c_loc, nwbfile>>
                 ELSE IF ~SameInstant(session_start_time, nwbfile.session_start_time)
                 THEN /\ c_pc' = "returned"
                      /\ c_log' = [c_log EXCEPT !.printed =
                                       <<"Session start time in current nwbfile does not match the start time from rsd files.",
                                         "Ophys data conversion aborted.">>]
                      /\ c_loc' = [c_loc EXCEPT !.all_headers = all_headers,
                                                !.session_start_time = session_start_time]
                      /\ UNCHANGED nwbfile
                 ELSE /\ c_pc' = "loop"
                      /\ nwbfile' = [nwbfile EXCEPT !.devices = @ \cup {"device"}]
                      /\ c_loc' = [c_loc EXCEPT
                                       !.all_headers = all_headers,
                                       !.session_start_time = session_start_time,
                                       !.add_trials = nwbfile.trials.none,
                                       !.trials_numbers =
                                           [i \in 1..Len(all_headers) |->
                                                TrialOf(all_headers[i])]]
                      /\ c_log' = IF nwbfile.trials.none THEN c_log
                                  ELSE [c_log EXCEPT !.printed =
                                            <<"Trials already exist in current nwb file. Ophys trials intervals not added.">>]
    /\ UNCHANGED <<c_dir, m_vars, g_vars>>

\* one pass of the trial loop
ConvTrial ==
    /\ c_pc = "loop"
    /\ c_loc.done < Len(c_loc.trials_numbers)
    /\ \E hdr_A \in TrialHeaders, hdr_B \in TrialHeaders :
         LET tr == c_loc.trials_numbers[c_loc.done + 1]
             meta_A == TrialMeta[hdr_A]
             meta_B == TrialMeta[hdr_B]
             absolute_start_time == Strptime(meta_A.acquisition_date)
             relative_start_time ==
                 RelativeStartTime(absolute_start_time, nwbfile.session_start_time)
             failed == TrialAsserts(meta_A, meta_B, relative_start_time)
             read == [c_loc EXCEPT !.tr = tr, !.meta_A = meta_A, !.meta_B = meta_B,
                                   !.absolute_start_time = absolute_start_time,
                                   !.relative_start_time = relative_start_time]
             fret == FRET(tr,
                          FRETSeries("donor", "A", tr, relative_start_time,
                                     meta_A.sample_rate),
                          FRETSeries("acceptor", "B", tr, relative_start_time,
                                     meta_B.sample_rate))
             tr_stop == FloatAdd(relative_start_time,
                                 FloatDiv(ToFloat(meta_A.n_frames), meta_A.sample_rate))
         IN IF meta_A.status # "ok" \/ meta_B.status # "ok"
            THEN /\ c_pc' = "raised"
                 /\ c_log' = [c_log EXCEPT !.raised =
                                  IF meta_A.status # "ok" THEN meta_A.status
                                  ELSE meta_B.status]
                 /\ c_loc' = [c_loc EXCEPT !.tr = tr]
                 /\ UNCHANGED nwbfile
            ELSE IF failed # ""
            THEN /\ c_pc' = "raised"
                 /\ c_log' = [c_log EXCEPT !.raised = "AssertionError",
                                           !.printed = Append(@, failed)]
                 /\ c_loc' = read
                 /\ UNCHANGED nwbfile
            ELSE /\ c_pc' = "loop"
                 /\ c_loc' = [read EXCEPT !.done = @ + 1]
                 /\ nwbfile' =
                        [nwbfile EXCEPT
                             !.acquisition = Append(@, fret),
                             !.trials = AddTrial(@, c_loc.add_trials,
                                                 relative_start_time, tr_stop)]
                 /\ UNCHANGED c_log
    /\ UNCHANGED <<c_dir, m_vars, g_vars>>

\* the trial loop ends: run_conversion returns
ConvReturn ==
    /\ c_pc = "loop"
    /\ c_loc.done >= Len(c_loc.trials_numbers)
    /\ c_pc' = "returned"
    /\ UNCHANGED <<c_dir, c_loc, nwbfile, c_log, m_vars, g_vars>>

Init ==
    /\ c_pc = "start"
    /\ c_dir \in Directories
    /\ c_loc = ConvLocals0
    /\ nwbfile \in Containers
    /\ c_log = ConvLog0(nwbfile)
    /\ MetaIdle /\ GenIdle

Next == ConvStart \/ ConvTrial \/ ConvReturn

Spec == Init /\ [][Next]_vars

-----------------------------------------------------------------------------
(* Properties of data_gen, checked under SpecGen *)

\* a file has been opened by the pass of the for loop the generator is in
FileOpened == g_log.opened # <<>>

\* the frames data_gen has to yield for a file of len bytes
ExpectedFrames(len) == (len \div 2) \div 12800

\* the statement of C1 on the file f: the generator does not fail on it, yields
\* 100x100 frames, never more than ExpectedFrames, and exactly that many once it
\* is through with the file
YieldsAllFrames ==
    /\ g_pc # "raised"
    /\ g_log.yields <= ExpectedFrames(g_loc.f.len)
    /\ (g_pc \in {"next_file", "exhausted"} =>
            g_log.yields = ExpectedFrames(g_loc.f.len))
    /\ (g_log.yields > 0 => g_out.shape = <<100, 100>>)

\* C1 as stated: for every raw-data file whose byte length is a multiple of
\* 25,600, data_gen yields exactly (byte length / 2) / 12,800 frames of shape
\* 100x100, whatever page_frames the header declares.
C1_AnyLength == (FileOpened /\ g_loc.f.len % 25600 = 0) => YieldsAllFrames

\* C1, amended: for every raw-data file whose byte length is a multiple of 25,600
\* and at most 1,000,000,000 (the size of the single read), data_gen yields
\* exactly (byte length / 2) / 12,800 frames of shape 100x100, whatever
\* page_frames the header declares.
C1_FrameCount ==
    (FileOpened /\ g_loc.f.len % 25600 = 0 /\ g_loc.f.len <= 1000000000)
        => YieldsAllFrames

\* a file of two frames has been decoded to its end under a header that declares
\* page_frames = 5
C1_Witness ==
    /\ g_pc = "next_file" /\ FileOpened
    /\ g_loc.f.len = 51200 /\ g_log.yields = 2
    /\ g_hdr[3] = PageLine("5")
    /\ g_out.shape = <<100, 100>>

\* C2: for every frame index k and pixel (r, c), 0 <= r, c < 100, the decoded
\* frame k holds at (r, c) the negation, as a signed 16-bit integer (so that
\* -32768 stays -32768), of the raw sample at position
\* k*12800 + (r + 20) + 128*c of the file.
C2_PixelMapping ==
    g_log.yields > 0 =>
        /\ g_out.shape = <<100, 100>>
        /\ g_out.at =
               [x \in 1..100 * 100 |->
                    LET r == (x - 1) \div 100
                        c == (x - 1) % 100
                    IN WrapInt16(-FileSample(g_loc.f,
                                             g_log.last[2] * 12800 + (r + 20) + 128 * c))]

\* the second frame of a file has been yielded, one of its raw samples is
\* -32768, and the frame holds -32768 there
C2_Witness ==
    /\ g_log.yields > 0
    /\ g_log.last[2] = 1
    /\ \E r \in 0..99, c \in 0..99 :
         /\ FileSample(g_loc.f, 12800 + (r + 20) + 128 * c) = -32768
         /\ Elem(g_out, r, c) = -32768

\* the file names of the lines that follow the sentinel line of a header
ListedFiles(hdr) ==
    LET k == CHOOSE i \in 1..Len(hdr) : hdr[i] = SentinelLine
    IN [i \in 1..Len(hdr) - k |-> <<hdr[k + i][1]>>]

\* <<fn, ifr>> comes before <<fn2, ifr2>>: an earlier file, or the same file and
\* an earlier frame
FrameBefore(a, b) == a[1] < b[1] \/ (a[1] = b[1] /\ a[2] < b[2])

\* the files opened so far are the files the header lists after its first one,
\* in the order of the list
OpenedInListOrder ==
    /\ Len(g_log.opened) < Len(ListedFiles(g_hdr))
    /\ \A i \in 1..Len(g_log.opened) : g_log.opened[i] = ListedFiles(g_hdr)[i + 1]

\* C3: data_gen emits frames in header file-list order and, within a file, in
\* increasing frame position: each yield is a frame of the file opened last,
\* later than the frame yielded before it; and the first file name listed after
\* the sentinel (the bitmap file) is never opened.
C3_Order ==
    [][/\ (g_log'.yields = g_log.yields + 1 =>
              /\ FrameBefore(g_log.last, g_log'.last)
              /\ g_log'.last[1] + 1 = Len(g_log'.opened))
       /\ (g_log'.opened # <<>> =>
              /\ OpenedInListOrder'
              /\ \A i \in 1..Len(g_log'.opened) :
                     g_log'.opened[i] # ListedFiles(g_hdr')[1])]_vars

\* the second frame of the second file of the list has been yielded
C3_Witness ==
    /\ Len(g_log.opened) = 2
    /\ g_log.last = <<1, 1>>
    /\ g_log.yields = 2

\* x on top of y: the rows of x, then the rows of y
ConcatRows(x, y) ==
    [shape |-> <<x.shape[1] + y.shape[1], x.shape[2]>>, at |-> x.at \o y.at]

\* rows 0 .. nrows - 1 of the excess region on top of the frame region are,
\* negated back within 16 bits, the rows of the block frame k was decoded from
SplitCovers(nrows) ==
    LET both == ConcatRows(g_excess, g_out)
    IN /\ both.shape = <<nrows, 100>>
       /\ NegateInt16(both).at =
              [x \in 1..nrows * 100 |->
                   LET a == (x - 1) \div 100
                       b == (x - 1) % 100
                   IN FileSample(g_loc.f, g_log.last[2] * 12800 + a + 128 * b)]

\* C4 as stated: the excess region and the frame region together are, un-negated,
\* the full 128x100 block; each of its 128 rows is in exactly one of the two.
C4_FullBlock == g_log.yields > 0 => SplitCovers(128)

\* C4, amended: the excess region (rows 0-19) and the frame region (rows 20-119)
\* together are, un-negated within 16 bits, rows 0-119 of the 128x100 block;
\* each of these 120 rows is in exactly one of the two regions, and rows 120-127
\* are in neither.
C4_Split == g_log.yields > 0 => SplitCovers(120)

\* a frame has been yielded with its excess region, from a block that holds
\* the sample -32768
C4_Witness ==
    /\ g_log.yields > 0
    /\ g_excess.shape = <<20, 100>> /\ g_out.shape = <<100, 100>>
    /\ g_log.last[2] = 1
    /\ FileSample(g_loc.f, 12800 + 20) = -32768
    /\ Elem(g_out, 0, 0) = -32768

\* C10: a raw-data file whose byte length is odd, whose sample count is no
\* multiple of 12,800, or whose frame count is not positive (an empty file),
\* makes the decoder fail, with no frame of it yielded.
C10_BadGeometryFails ==
    (/\ FileOpened
     /\ \/ g_loc.f.len % 2 # 0
        \/ (g_loc.f.len \div 2) % 12800 # 0
        \/ (g_loc.f.len \div 2) \div 12800 <= 0)
        => /\ g_pc = "raised"
           /\ g_log.error \in {"struct.error", "ValueError"}
           /\ g_log.yields = 0

\* the errors data_gen raises on a file that does not divide into frames
GeometryErrors == {"struct.error", "ValueError"}

\* the file in hand is longer than the single read
Oversize == FileOpened /\ g_loc.f.len > 1000000000

\* C11 as stated: for every raw-data file longer than 1,000,000,000 bytes the
\* decoder fails with an error of its own, the capacity error, which is not the
\* error of a file that does not divide into frames, and decodes no frame of
\* the leading portion.
C11_CapacityError ==
    Oversize => /\ g_pc = "raised"
                /\ g_log.error # ""
                /\ g_log.error \notin GeometryErrors
                /\ g_log.yields = 0

\* C11, amended: for every raw-data file longer than 1,000,000,000 bytes the
\* decoder fails, with the error of a file that does not divide into frames (the
\* 500,000,000 samples of the leading 1,000,000,000 bytes are 39,062 frames and
\* a half, which reshape refuses), and yields no frame of the leading portion.
C11_OversizeFails ==
    Oversize => /\ g_pc = "raised"
                /\ g_log.error = "ValueError"
                /\ g_loc.byte.len = 1000000000
                /\ g_loc.n_frames = 39062
                /\ g_log.yields = 0

\* a file of 40,000 whole frames, 1,024,000,000 bytes, has been refused as the
\* second file of the list, after a first file that was decoded
C11_Witness ==
    /\ g_pc = "raised" /\ g_log.error = "ValueError"
    /\ g_loc.f.len = 40000 * 25600
    /\ g_loc.byte.len = 1000000000
    /\ g_loc.fn = 1
    /\ g_log.yields = 0

-----------------------------------------------------------------------------
(* Properties of read_trial_meta, checked under SpecMeta *)

\* the text of a line without its line end
LineText(line) == SubSeq(line, 1, Len(line) - 1)

HasSentinel(hdr) == \E i \in 1..Len(hdr) : hdr[i] = SentinelLine

\* the place of the first sentinel line
FirstSentinel(hdr) ==
    CHOOSE i \in 1..Len(hdr) :
        hdr[i] = SentinelLine /\ \A j \in 1..i - 1 : hdr[j] # SentinelLine

\* the places of the lines of a field
FieldLines(hdr, key) == {i \in 1..Len(hdr) : hdr[i][1] = key}

\* the place of the last line of a field
LastLine(hdr, key) ==
    CHOOSE i \in FieldLines(hdr, key) : \A j \in FieldLines(hdr, key) : j <= i

FieldKeys == {"acquisition_date", "sample_time", "page_frames"}

\* the header holds the three fields, then the sentinel, then at least one line
WellFormed(hdr) ==
    /\ HasSentinel(hdr)
    /\ \A key \in FieldKeys :
           \E i \in FieldLines(hdr, key) : i < FirstSentinel(hdr)
    /\ FirstSentinel(hdr) < Len(hdr)

\* what the fields of a line declare
DeclaredDate(line) == CHOOSE d \in {"2020/01/01 10:00:00"} : line = DateLine(d)
DeclaredMsec(line) == CHOOSE ms \in {"10"} : line = SampleLine(ms)
DeclaredFrames(line) == CHOOSE n \in {"5", "6"} : line = PageLine(n)

C6_MissingRaises ==
    (/\ m_pc # "reading"
     /\ \/ ~HasSentinel(m_header)
        \/ \E key \in FieldKeys : FieldLines(m_header, key) = {})
        => /\ m_pc = "raised"
           /\ m_result.status \in {"IndexError", "UnboundLocalError"}
           /\ DOMAIN m_result = {"status"}

\* a header with the sentinel and a file name, but without page_frames, has made
\* read_trial_meta raise
C6_Witness ==
    /\ m_pc = "raised"
    /\ HasSentinel(m_header)
    /\ FirstSentinel(m_header) < Len(m_header)
    /\ FieldLines(m_header, "page_frames") = {}
    /\ FieldLines(m_header, "acquisition_date") # {}
    /\ FieldLines(m_header, "sample_time") # {}
    /\ m_result.status = "UnboundLocalError"

-----------------------------------------------------------------------------
(* Properties of run_conversion, checked under Spec *)

\* the step is a pass of the trial loop that read the two headers of a trial
TrialRead == c_pc = "loop" /\ c_loc' # c_loc /\ c_loc'.meta_A.status = "ok"

\* the FRET groups of the container that carry the name of trial tr
GroupsOf(container, tr) ==
    {i \in 1..Len(container.acquisition) :
         container.acquisition[i].name = <<"FRET", "_">> \o tr}

\* C7: a trial whose donor and acceptor headers declare different sample rates
\* (or acquisition dates, or frame counts) makes run_conversion raise the
\* assertion failure, with nothing of that trial added to the container: no FRET
\* group, no frame series, no trial interval.
C7_MismatchRaises ==
    [][(/\ TrialRead
        /\ \/ c_loc'.meta_A.sample_rate # c_loc'.meta_B.sample_rate
           \/ c_loc'.meta_A.acquisition_date # c_loc'.meta_B.acquisition_date
           \/ c_loc'.meta_A.n_frames # c_loc'.meta_B.n_frames)
           => /\ c_pc' = "raised"
              /\ c_log'.raised = "AssertionError"
              /\ nwbfile' = nwbfile
              /\ GroupsOf(nwbfile', c_loc'.tr) = {}]_vars

\* the second trial of the directory had headers of different sample rates: the
\* run has raised, and the container holds the group of the first trial alone
C7_Witness ==
    /\ c_pc = "raised"
    /\ c_log.raised = "AssertionError"
    /\ c_loc.done = 1
    /\ c_loc.meta_A.sample_rate # c_loc.meta_B.sample_rate
    /\ c_loc.meta_A.acquisition_date = c_loc.meta_B.acquisition_date
    /\ GroupsOf(nwbfile, c_loc.tr) = {}
    /\ GroupsOf(nwbfile, c_loc.trials_numbers[1]) # {}

\* the seconds from the session start time of the container to the acquisition
\* timestamp of the trial, an EST reading
SecondsSinceStart ==
    (Strptime(c_loc.meta_A.acquisition_date) + EstBehindUtc)
        - (nwbfile.session_start_time.naive - nwbfile.session_start_time.utcoffset)

\* C8: the relative start time of a trial is its acquisition timestamp minus the
\* session start time, in seconds, and a trial whose acquisition timestamp is
\* earlier than the session start time makes run_conversion raise the assertion
\* failure instead of adding the trial with some starting time. Stated of the
\* trials whose two channels agree, which no other assertion stops.
C8_NegativeStartRaises ==
    (c_loc.meta_A.status = "ok" /\ c_loc.meta_A = c_loc.meta_B) =>
        IF SecondsSinceStart < 0
        THEN c_pc = "raised" /\ c_log.raised = "AssertionError"
        ELSE c_loc.relative_start_time = <<SecondsSinceStart, 1>>

\* the warning run_conversion prints on a session start time that does not match
AbortWarning ==
    <<"Session start time in current nwbfile does not match the start time from rsd files.",
      "Ophys data conversion aborted.">>

\* C9: when the session start time of the first header is another instant than
\* the session_start_time of the container, run_conversion prints the warning and
\* returns without raising, and the container is as it was given: no device, no
\* FRET group, no trial interval added, the data in it untouched.
C9_StartMismatchSkips ==
    (/\ c_pc # "start"
     /\ c_log.raised # "OSError"
     /\ c_loc.session_start_time.naive - c_loc.session_start_time.utcoffset
            # c_log.given.session_start_time.naive
                  - c_log.given.session_start_time.utcoffset)
        => /\ c_pc = "returned"
           /\ c_log.raised = ""
           /\ c_log.printed = AbortWarning
           /\ nwbfile = c_log.given

\* the run has skipped a container that held data and trials, whose start time
\* reads 10:00:00 like the header's, in another time zone
C9_Witness ==
    /\ c_pc = "returned"
    /\ c_log.printed = AbortWarning
    /\ c_log.given.session_start_time = [naive |-> 36000, utcoffset |-> 0]
    /\ c_loc.session_start_time.naive = 36000
    /\ c_log.given.acquisition # <<>>
    /\ ~c_log.given.trials.none
    /\ nwbfile = c_log.given

\* the non-channel header names of the model in the order sorted() gives them:
\* 'p-1.rsh' < 'p-10.rsh' < 'p-2.rsh'
StringOrder == <<HeaderName("1"), HeaderName("10"), HeaderName("2")>>

\* the headers of the directory, sorted
SortedHeaders ==
    LET InDir(f) == f \in c_dir IN SelectSeq(StringOrder, InDir)

\* a + n / r on the rationals a and r
IntervalStop(a, n, r) == Rat(a[1] * r[1] + n * r[2] * a[2], a[2] * r[1])

\* the interval of the trial just read
TrialRow ==
    [start_time |-> c_loc'.relative_start_time,
     stop_time |-> IntervalStop(c_loc'.relative_start_time, c_loc'.meta_A.n_frames,
                                c_loc'.meta_A.sample_rate)]

\* run_conversion passes the session-start check
PassesStartCheck == c_pc = "start" /\ c_pc' = "loop"

\* a trial passes the cross-checks
PassesTrialChecks == c_pc = "loop" /\ c_pc' = "loop"

\* run_conversion returns after its trial loop
ReturnsAfterLoop == c_pc = "loop" /\ c_pc' = "returned"

\* C12: in a run_conversion that passes the session-start check and the
\* cross-checks of every trial, exactly one FRET group is added per non-channel
\* header, in sorted header order, and trial intervals are added only if the
\* container had no trials when the conversion started: nothing is added before
\* the loop, each pass appends the group of the next header and, if there were
\* no trials at the start, one interval [relative_start_time,
\* relative_start_time + frame count / sample rate], the first interval not
\* suppressing the later ones; if trials existed, none is added.
C12_GroupsAndTrials ==
    [][/\ PassesStartCheck =>
              /\ nwbfile'.acquisition = c_log.given.acquisition
              /\ nwbfile'.trials = c_log.given.trials
       /\ PassesTrialChecks =>
              LET i == c_loc.done + 1
                  added == nwbfile'.acquisition[Len(nwbfile'.acquisition)]
              IN /\ c_loc'.done = i
                 /\ Len(nwbfile'.acquisition) = Len(nwbfile.acquisition) + 1
                 /\ SubSeq(nwbfile'.acquisition, 1, Len(nwbfile.acquisition))
                        = nwbfile.acquisition
                 /\ added.name = <<"FRET", "_">> \o TrialOf(SortedHeaders[i])
                 /\ added.donor.starting_time = c_loc'.relative_start_time
                 /\ added.acceptor.starting_time = c_loc'.relative_start_time
                 /\ nwbfile'.trials =
                        IF c_log.given.trials.none
                        THEN [none |-> FALSE,
                              rows |-> Append(nwbfile.trials.rows, TrialRow)]
                        ELSE c_log.given.trials
       /\ ReturnsAfterLoop =>
              /\ nwbfile' = nwbfile
              /\ Len(nwbfile.acquisition)
                     = Len(c_log.given.acquisition) + Cardinality(c_dir)
              /\ Len(nwbfile.trials.rows) =
                     IF c_log.given.trials.none THEN Cardinality(c_dir)
                     ELSE Len(c_log.given.trials.rows)]_vars

\* the run has returned from a directory of the trials 10 and 2 and a container
\* that held data and no trials: the groups FRET_10 and FRET_2 follow the data in
\* this order, and each trial has its interval, the second one starting 30 s
\* after the first
C12_Witness ==
    /\ c_pc = "returned"
    /\ c_dir = {HeaderName("2"), HeaderName("10")}
    /\ c_log.given.trials.none
    /\ Len(c_log.given.acquisition) = 1
    /\ Len(nwbfile.acquisition) = 3
    /\ nwbfile.acquisition[2].name = <<"FRET", "_", "10">>
    /\ nwbfile.acquisition[3].name = <<"FRET", "_", "2">>
    /\ nwbfile.trials.rows = <<[start_time |-> <<0, 1>>, stop_time |-> <<1, 20>>],
                               [start_time |-> <<30, 1>>, stop_time |-> <<601, 20>>]>>

====
